---------------------------- MODULE Spec2Model ----------------------------
(***************************************************************************)
(* Model of the review application of src/anki_gui.py (class ReviewApp,    *)
(* class SheetManager and the generation clients it calls).                *)
(*                                                                         *)
(* Strings that the code takes apart (sheet cells, queue entries, words,   *)
(* hints) are sequences of one-character strings.  Strings that the code   *)
(* only stores and compares (generated texts, error messages, label        *)
(* texts) are atoms.                                                       *)
(*                                                                         *)
(* The event loop of tkinter runs one handler at a time: every handler is  *)
(* one action.  A background thread is cut at each blocking external call  *)
(* (text, image, audio, sheet update): one action per stretch of code      *)
(* between two calls.                                                      *)
(***************************************************************************)
EXTENDS Integers, Sequences, FiniteSets, TLC

VARIABLES
    sheet,              \* the spreadsheet: sequence of rows [Word, Status]
    raw_data,           \* ReviewApp.raw_data: sequence of [text, row_idx]
    word_queue,         \* ReviewApp.word_queue
    cache,              \* ReviewApp.cache: word -> dict (function, growing domain)
    current_word,       \* ReviewApp.current_word
    viewing_index,      \* ReviewApp.viewing_index (0-based, as in the code)
    is_closing,         \* ReviewApp.is_closing
    after_id,           \* TRUE iff a load_current_view timer is pending
    last_loaded_path,   \* ReviewApp.last_loaded_path
    destroyed,          \* root.destroy() has run
    entries,            \* the four tk.Text boxes, raw content
    lbl_img,            \* the image label: [image, text]
    btn_approve,        \* state of the three buttons
    btn_regen_text,
    btn_regen_img,
    afterq,             \* root.after(0, ...) callbacks not yet run, FIFO
    tasks,              \* executor work items, in submission order
    approver,           \* the _approve_worker thread
    rtext,              \* running _do_regen_text threads
    rimg,               \* running _do_regen_image threads
    nuser,              \* edits and regenerations the user has made so far
    now,                \* int(time.time()) at the last reading of the clock, in
                        \* seconds since its first reading; -1 before that
    temp_files,         \* files in TEMP_FOLDER
    final_files,        \* files in FINAL_FOLDER
    csv,                \* rows of CSV_FILE, in order
    renders,            \* history: image-area re-renders in the current run of ticks
    regen_had_error,    \* history: the last regen_image found image_error on its card
    off_loop_access,    \* history: a background thread has read or written a widget
    regen_text_result,  \* history: word -> the record its last successful text
                        \* regeneration returned
    form_seen,          \* history: the contents the form has held since the approval
                        \* thread read its first field, until it has read the last
    call,               \* a call of a function on its own: [fn, its arguments, pc],
                        \* and out once it has returned; NoCall in a session
    budget              \* the edits and regenerations the session is followed for

vars == <<sheet, raw_data, word_queue, cache, current_word, viewing_index,
          is_closing, after_id, last_loaded_path, destroyed, entries, lbl_img,
          btn_approve, btn_regen_text, btn_regen_img, afterq, tasks, approver,
          rtext, rimg, nuser, now, temp_files, final_files, csv,
          renders, regen_had_error, off_loop_access, regen_text_result,
          form_seen, call, budget>>

---------------------------------------------------------------------------
(* Bounds of the model *)

MaxUserActions == 1 \* edits and regenerations the user makes in one session
MaxTime == 0        \* the last second of the session, counted from its first clock reading

(* Program constants *)

BATCH_LIMIT == 50
MAX_WORKERS == 3

---------------------------------------------------------------------------
(* Strings as sequences of characters *)

IsSpace(c) == c = " "

IsAlnum(c) == c \in {"a", "b", "h"}

RECURSIVE LStrip(_)
LStrip(s) ==
    IF s # <<>> /\ IsSpace(Head(s)) THEN LStrip(Tail(s)) ELSE s

RECURSIVE RStrip(_)
RStrip(s) ==
    IF s # <<>> /\ IsSpace(s[Len(s)]) THEN RStrip(SubSeq(s, 1, Len(s) - 1)) ELSE s

\* str.strip()
Strip(s) == RStrip(LStrip(s))

\* c in s
Contains(s, c) == \E i \in 1..Len(s) : s[i] = c

\* position of the first c in s from position i on, Len(s) + 1 if there is none
RECURSIVE FindFrom(_, _, _)
FindFrom(s, c, i) ==
    IF i > Len(s) THEN Len(s) + 1
    ELSE IF s[i] = c THEN i
    ELSE FindFrom(s, c, i + 1)

\* s.split(c)[0]
SplitFirst(s, c) == SubSeq(s, 1, FindFrom(s, c, 1) - 1)

\* s.split(c)[1], for s that contains c
SplitSecond(s, c) ==
    LET p == FindFrom(s, c, 1)
        q == FindFrom(s, c, p + 1)
    IN  SubSeq(s, p + 1, q - 1)

\* s.replace(c, "")
Remove(s, c) == SelectSeq(s, LAMBDA x : x # c)

---------------------------------------------------------------------------
(* Python dicts: functions whose domain grows and shrinks *)

EmptyDict == [k \in {} |-> ""]

\* d.update(data)
Update(d, data) ==
    [k \in DOMAIN d \cup DOMAIN data |-> IF k \in DOMAIN data THEN data[k] ELSE d[k]]

\* d[key] = v
SetKey(d, key, v) == Update(d, [k \in {key} |-> v])

\* del d[key]
DelKey(d, key) == [k \in DOMAIN d \ {key} |-> d[k]]

\* d.get(key, default)
Get(d, key, default) == IF key \in DOMAIN d THEN d[key] ELSE default

---------------------------------------------------------------------------
(* The values the model draws inputs from *)

Done == <<"D", "o", "n", "e">>

\* str.lower(), on the characters that occur
LowerChar(c) ==
    CASE c = "D" -> "d"
      [] c = "O" -> "o"
      [] c = "N" -> "n"
      [] c = "E" -> "e"
      [] OTHER -> c

Lower(s) == [i \in 1..Len(s) |-> LowerChar(s[i])]

Row(w, st) == [Word |-> w, Status |-> st]

\* the sheets a session starts from: one pending word; a finished row, then the same
\* word twice, once with a hint; two different words; nothing pending
Sheets ==
    { << Row(<<"a">>, <<>>) >>,
      << Row(<<"b">>, Done), Row(<<"a">>, <<>>), Row(<<"a", " ", "(", "h", ")">>, <<>>) >>,
      << Row(<<"a", " ", "(", "h", ")">>, <<>>), Row(<<"b">>, <<>>) >>,
      << Row(<<"b">>, Done) >> }

\* what the text client can return: the work item of a word gets the first record,
\* a regeneration the same record again or a second one
PrefetchTexts == {1}

RegenTexts == {1, 2}

TextData(v) ==
    IF v = 1
    THEN [definition |-> "d1", sentence |-> "s1", translation |-> "t1", scenario |-> "c1"]
    ELSE [definition |-> "d2", sentence |-> "s2", translation |-> "t2", scenario |-> "c2"]

\* the error reasons the image client can return: to a work item, and to a
\* regeneration (the same reason again, or another one)
PrefetchErrors == {"API Error: 500"}

RegenErrors == {"API Error: 500", "timeout"}

\* what the user types into a text box: a text with blanks around it
UserTexts == {" u "}

\* tk.Text.get("1.0", tk.END).strip(), on the box contents that occur
StripText(t) == IF t = " u " THEN "u" ELSE t

Fields == {"Definition", "Sentence", "Translation", "Scenario"}

\* k.lower() of a field name
FieldKey(f) ==
    CASE f = "Definition" -> "definition"
      [] f = "Sentence" -> "sentence"
      [] f = "Translation" -> "translation"
      [] f = "Scenario" -> "scenario"

NoPath == <<>>

\* "".join(c for c in word if c.isalnum()) + f"_{int(time.time())}" + ext, in TEMP_FOLDER
SafeName(word, t, ext) == <<SelectSeq(word, IsAlnum), t, ext>>

\* label texts are sequences of pieces; "x in text" is "x is one of the pieces"
InText(x, text) == \E i \in 1..Len(text) : text[i] = x

TxtWaiting == <<"Waiting...">>
TxtLoading == <<"Loading", "...">>
TxtLoadingNext == <<"Loading", " next...">>
TxtGenerating == <<"Generating", "...">>
TxtRegenerating == <<"Regenerating...">>
TxtNone == <<>>
TxtTickError(e) == <<"! ", e, "\n\nChange Mode or Text">>
TxtRegenError(e) == <<"! ", e, "\nChange Text & Retry">>

---------------------------------------------------------------------------
(* SheetManager *)

\* fetch_pending_words numbering the sheet rows from the record position plus 1
RECURSIVE FetchFrom_row_off_by_one(_, _, _, _)
FetchFrom_row_off_by_one(records, i, pending, limit) ==
    IF i > Len(records) \/ Len(pending) >= limit THEN pending
    ELSE LET status == Lower(Strip(records[i].Status))
             word == Strip(records[i].Word)
         IN  IF status # <<"d", "o", "n", "e">> /\ word # <<>>
             THEN FetchFrom_row_off_by_one(records, i + 1,
                      Append(pending, [text |-> word, row_idx |-> (i - 1) + 1]), limit)
             ELSE FetchFrom_row_off_by_one(records, i + 1, pending, limit)

\* the loop of fetch_pending_words, from record i (1-based) on
RECURSIVE FetchFrom(_, _, _, _)
FetchFrom(records, i, pending, limit) ==
    IF i > Len(records) \/ Len(pending) >= limit THEN pending
    ELSE LET status == Lower(Strip(records[i].Status))
             word == Strip(records[i].Word)
         IN  IF status # <<"d", "o", "n", "e">> /\ word # <<>>
             THEN FetchFrom(records, i + 1,
                            Append(pending, [text |-> word, row_idx |-> (i - 1) + 2]), limit)
             ELSE FetchFrom(records, i + 1, pending, limit)

\* SheetManager.fetch_pending_words; readOk = FALSE: get_all_records raised
fetch_pending_words(records, limit, readOk) ==
    IF readOk THEN FetchFrom(records, 1, <<>>, limit) ELSE <<>>

\* mark_as_done taking the sheet row for the record number
mark_as_done_next_record(sh, row_idx) ==
    [sh EXCEPT ![row_idx].Status = Done]

\* SheetManager.mark_as_done, when update_cell succeeds: sheet row r is record r - 1
\* (1-based r - 1 here), column 2 is Status
mark_as_done(sh, row_idx) ==
    [sh EXCEPT ![row_idx - 1].Status = Done]

---------------------------------------------------------------------------
(* ReviewApp: the parsing of a queue entry *)

\* the word start_prefetching computes for a queue entry
PrefetchWord(raw) ==
    IF Contains(raw, "(") THEN Strip(SplitFirst(raw, "(")) ELSE raw

\* the hint start_prefetching computes for a queue entry
PrefetchHint(raw) ==
    IF Contains(raw, "(") THEN Strip(Remove(SplitSecond(raw, "("), ")"))
    ELSE <<"N", "o", "n", "e">>

\* the word of a queue entry cut at the parenthesis but not trimmed
ViewWord_untrimmed(raw) ==
    IF Contains(raw, "(") THEN SplitFirst(raw, "(") ELSE raw

\* the word load_current_view computes for a queue entry
ViewWord(raw) ==
    IF Contains(raw, "(") THEN Strip(SplitFirst(raw, "(")) ELSE raw

\* the loop of start_prefetching from queue position i on: the cache entries it
\* creates and the work items it submits
RECURSIVE PrefetchFrom(_, _, _, _)
PrefetchFrom(queue, i, c, t) ==
    IF i > Len(queue) THEN [cache |-> c, tasks |-> t]
    ELSE LET word == PrefetchWord(queue[i])
             hint == PrefetchHint(queue[i])
             c2 == IF word \in DOMAIN c THEN c
                   ELSE [w \in DOMAIN c \cup {word} |->
                            IF w = word THEN [status |-> "pending", hint |-> hint]
                            ELSE c[w]]
             t2 == Append(t, [word |-> word, hint |-> hint, pc |-> "queued",
                              file |-> NoPath, scenario |-> ""])
         IN  PrefetchFrom(queue, i + 1, c2, t2)

start_prefetching(queue) == PrefetchFrom(queue, 1, [w \in {} |-> EmptyDict], <<>>)

----------------------------------------------------------------------------
(* anki-automator.py: the parse of process_word *)

\* the first position from i on that holds no blank, Len(s) + 1 when there is none
RECURSIVE SkipSpaces(_, _)
SkipSpaces(s, i) ==
    IF i > Len(s) THEN Len(s) + 1
    ELSE IF IsSpace(s[i]) THEN SkipSpaces(s, i + 1) ELSE i

\* a group that took no part in the match
NoGroup == <<"<None>">>

\* whether ^(.*?)\s*(?:\((.*)\))?$ matches s with k characters in group 1: after
\* the blanks that follow, either s has ended or the rest runs from a "(" to a ")"
\* that ends s
MatchesWith(s, k) ==
    LET p == SkipSpaces(s, k + 1)
    IN  \/ p = Len(s) + 1
        \/ /\ s[p] = "("
           /\ Len(s) > p
           /\ s[Len(s)] = ")"

\* re.match(r"^(.*?)\s*(?:\((.*)\))?$", s): group 1 is lazy, so it is the shortest
\* prefix the rest matches after; group 2 is greedy and ends at the last character
ReMatch(s) ==
    LET k == CHOOSE j \in 0..Len(s) :
                 MatchesWith(s, j) /\ \A i \in 0..(j - 1) : ~MatchesWith(s, i)
        p == SkipSpaces(s, k + 1)
    IN  [group1 |-> SubSeq(s, 1, k),
         group2 |-> IF p = Len(s) + 1 THEN NoGroup ELSE SubSeq(s, p + 1, Len(s) - 1)]

\* input_text and hint of process_word
process_word(raw_input) ==
    LET match == ReMatch(Strip(raw_input))
    IN  [input_text |-> match.group1,
         hint |-> IF match.group2 # NoGroup /\ match.group2 # <<>>
                  THEN match.group2 ELSE <<"N", "o", "n", "e">>]

---------------------------------------------------------------------------
(* ReviewApp: the reconciliation of the form with the cache *)

\* self.current_word = None
NoWord == <<"<None>">>

EmptyEntries == [f \in Fields |-> ""]

\* show_image: the label shows the picture when the file can be opened, and is left
\* alone when it cannot
show_image(lbl, path, files) ==
    IF path \in files THEN [lbl EXCEPT !.image = path] ELSE lbl

\* The part of the state load_current_view reads and writes, as a record:
\*   vi viewing_index, cw current_word, ent entries, lbl lbl_img,
\*   llp last_loaded_path, cache, closing is_closing, after after_id,
\*   destroyed, rendered (number of times the image part configured the label)
ViewState(vi, cw, ent, lbl, llp, c, closing, after, dest) ==
    [vi |-> vi, cw |-> cw, ent |-> ent, lbl |-> lbl, llp |-> llp, cache |-> c,
     closing |-> closing, after |-> after, destroyed |-> dest, rendered |-> 0]

\* the text part of load_current_view, for the cache entry "data" of the word
TextUpdate(ent, data) ==
    LET current_def == StripText(ent["Definition"])
        overwrite == /\ "definition" \in DOMAIN data
                     /\ current_def = "" \/ Get(data, "force_text_update", FALSE)
    IN  [ent |-> IF overwrite
                 THEN [f \in Fields |->
                          LET val == Get(data, FieldKey(f), "")
                          IN  IF StripText(ent[f]) # val THEN val ELSE ent[f]]
                 ELSE ent,
         data |-> IF overwrite /\ "force_text_update" \in DOMAIN data
                  THEN DelKey(data, "force_text_update")
                  ELSE data]

\* the image part of load_current_view
ImageUpdate(s, data, files) ==
    LET current_img_path == Get(data, "image_path", NoPath)
        error_msg == Get(data, "image_error", "")
        current_lbl_text == s.lbl.text
    IN  IF current_img_path # NoPath /\ s.llp # current_img_path
        THEN [s EXCEPT !.lbl = [show_image(s.lbl, current_img_path, files)
                                   EXCEPT !.text = TxtNone],
                       !.llp = current_img_path,
                       !.rendered = s.rendered + 1]
        ELSE IF error_msg # ""
        THEN IF ~InText(error_msg, current_lbl_text)
             THEN [s EXCEPT !.lbl = [image |-> NoPath, text |-> TxtTickError(error_msg)],
                            !.rendered = s.rendered + 1]
             ELSE s
        ELSE IF current_img_path = NoPath /\ error_msg = ""
        THEN IF ~InText("Generating", current_lbl_text) /\ ~InText("Loading", current_lbl_text)
             THEN [s EXCEPT !.lbl = [image |-> NoPath, text |-> TxtGenerating],
                            !.rendered = s.rendered + 1]
             ELSE s
        ELSE s

\* load_current_view without root.destroy() at the end of the queue
load_current_view_without_destroy(s, queue, files) ==
    LET s0 == [s EXCEPT !.after = FALSE]
    IN  IF s0.closing THEN s0
        ELSE IF s0.vi >= Len(queue)
        THEN [s0 EXCEPT !.closing = TRUE]
        ELSE LET word == ViewWord(queue[s0.vi + 1])
                 s1 == IF s0.cw # word
                       THEN [s0 EXCEPT !.cw = word,
                                       !.ent = EmptyEntries,
                                       !.lbl = [image |-> NoPath, text |-> TxtLoading],
                                       !.llp = NoPath]
                       ELSE s0
                 data == Get(s1.cache, word, EmptyDict)
                 tu == TextUpdate(s1.ent, data)
                 s2 == [s1 EXCEPT !.ent = tu.ent,
                                  !.cache = IF word \in DOMAIN s1.cache
                                            THEN [s1.cache EXCEPT ![word] = tu.data]
                                            ELSE s1.cache]
                 s3 == ImageUpdate(s2, tu.data, files)
             IN  [s3 EXCEPT !.after = TRUE]

\* ReviewApp.load_current_view
load_current_view(s, queue, files) ==
    LET s0 == [s EXCEPT !.after = FALSE]
    IN  IF s0.closing THEN s0
        ELSE IF s0.vi >= Len(queue)
        THEN [s0 EXCEPT !.closing = TRUE, !.destroyed = TRUE]
        ELSE LET word == ViewWord(queue[s0.vi + 1])
                 s1 == IF s0.cw # word
                       THEN [s0 EXCEPT !.cw = word,
                                       !.ent = EmptyEntries,
                                       !.lbl = [image |-> NoPath, text |-> TxtLoading],
                                       !.llp = NoPath]
                       ELSE s0
                 data == Get(s1.cache, word, EmptyDict)
                 tu == TextUpdate(s1.ent, data)
                 s2 == [s1 EXCEPT !.ent = tu.ent,
                                  !.cache = IF word \in DOMAIN s1.cache
                                            THEN [s1.cache EXCEPT ![word] = tu.data]
                                            ELSE s1.cache]
                 s3 == ImageUpdate(s2, tu.data, files)
             IN  [s3 EXCEPT !.after = TRUE]

---------------------------------------------------------------------------
(* The state after ReviewApp.__init__ *)

IdleApprover == [pc |-> "idle", final_sentence |-> "", aud |-> NoPath]

NoCall == [fn |-> "none"]

\* the state after ReviewApp.__init__ on sheet sh
InitFrom(sh, readOk) ==
        LET rd == fetch_pending_words(sh, BATCH_LIMIT, readOk)
            queue == [i \in 1..Len(rd) |-> rd[i].text]
            pf == start_prefetching(queue)
            v0 == ViewState(0, NoWord, EmptyEntries,
                            [image |-> NoPath, text |-> TxtWaiting], NoPath,
                            pf.cache, FALSE, FALSE, FALSE)
            v == load_current_view(v0, queue, {})
        IN  /\ sheet = sh
            /\ raw_data = rd
            /\ word_queue = queue
            /\ IF rd = <<>>
               THEN /\ cache = [w \in {} |-> EmptyDict]
                    /\ tasks = <<>>
                    /\ current_word = NoWord
                    /\ entries = EmptyEntries
                    /\ lbl_img = [image |-> NoPath, text |-> TxtWaiting]
                    /\ after_id = FALSE
                    /\ destroyed = TRUE
               ELSE /\ cache = v.cache
                    /\ tasks = pf.tasks
                    /\ current_word = v.cw
                    /\ entries = v.ent
                    /\ lbl_img = v.lbl
                    /\ after_id = v.after
                    /\ destroyed = FALSE
            /\ viewing_index = 0
            /\ is_closing = FALSE
            /\ last_loaded_path = NoPath
            /\ btn_approve = "normal"
            /\ btn_regen_text = "normal"
            /\ btn_regen_img = "normal"
            /\ afterq = <<>>
            /\ approver = IdleApprover
            /\ rtext = {}
            /\ rimg = {}
            /\ nuser = 0
            /\ now = -1
            /\ temp_files = {}
            /\ final_files = {}
            /\ csv = <<>>
            /\ renders = 0
            /\ regen_had_error = FALSE
            /\ off_loop_access = FALSE
            /\ regen_text_result = EmptyDict
            /\ form_seen = {}

Init ==
    \E sh \in Sheets, readOk \in BOOLEAN :
        InitFrom(sh, readOk) /\ call = NoCall /\ budget = MaxUserActions

---------------------------------------------------------------------------
(* Helpers of the actions *)

CurView ==
    ViewState(viewing_index, current_word, entries, lbl_img, last_loaded_path,
              cache, is_closing, after_id, destroyed)

\* root.destroy() destroys the widgets with the root
NoLabel == [image |-> NoPath, text |-> TxtNone]

Btn(dest, state) == IF dest THEN "destroyed" ELSE state

\* the outcome v of load_current_view becomes the state; q: the callbacks left, which
\* die with the interpreter when the root is destroyed
ApplyView(v, q) ==
    /\ viewing_index' = v.vi
    /\ current_word' = v.cw
    /\ entries' = IF v.destroyed THEN EmptyEntries ELSE v.ent
    /\ lbl_img' = IF v.destroyed THEN NoLabel ELSE v.lbl
    /\ last_loaded_path' = v.llp
    /\ cache' = v.cache
    /\ is_closing' = v.closing
    /\ after_id' = v.after
    /\ destroyed' = v.destroyed
    /\ afterq' = IF v.destroyed THEN <<>> ELSE q

viewVars == <<viewing_index, current_word, entries, lbl_img, last_loaded_path,
              cache, is_closing, after_id, destroyed, afterq>>

buttons == <<btn_approve, btn_regen_text, btn_regen_img>>

sinkVars == <<sheet, csv>>

fileVars == <<temp_files, final_files>>

threadVars == <<tasks, approver, rtext, rimg>>

sourceVars == <<raw_data, word_queue, call, budget>>

historyVars == <<regen_had_error, off_loop_access, regen_text_result>>

fixedVars == <<raw_data, word_queue, call, budget, form_seen>>

quietVars == <<raw_data, word_queue, call, budget, regen_had_error, off_loop_access,
               regen_text_result, form_seen>>

\* a step of the event loop that may change the form while the approval thread is
\* between its reads of the fields
SeeForm ==
    form_seen' = IF approver.pc = "audio" THEN form_seen \cup {entries'} ELSE form_seen

boundVars == <<nuser, now>>

\* root.after(0, cb) from a thread: queued, or an exception once the root is destroyed
Post(q, cb) == IF destroyed THEN q ELSE Append(q, cb)

\* the seconds the clock can show at its next reading
Clock == IF now = -1 THEN {0} ELSE now..MaxTime

\* the image-area renders are counted over a run of ticks; anything else that changes
\* what a tick reads starts a new run
MaxRenders == 3

FocusedEntry(c, w) == Get(c, w, EmptyDict)

RestartRun ==
    renders' = IF \/ FocusedEntry(cache', current_word') # FocusedEntry(cache, current_word)
                  \/ entries' # entries
                  \/ lbl_img' # lbl_img
                  \/ last_loaded_path' # last_loaded_path
                  \/ destroyed'
               THEN 0 ELSE renders

---------------------------------------------------------------------------
(* The event loop: timer, buttons, callbacks, the user's typing *)

\* the 500 ms timer fires load_current_view
Tick ==
    /\ ~destroyed
    /\ after_id
    /\ LET v == load_current_view(CurView, word_queue, temp_files)
       IN  /\ ApplyView(v, afterq)
           /\ renders' = IF v.destroyed THEN 0
                         ELSE IF renders + v.rendered > MaxRenders THEN MaxRenders
                         ELSE renders + v.rendered
    /\ UNCHANGED <<buttons, sinkVars, fileVars, threadVars, sourceVars, historyVars,
                   boundVars>>
    /\ SeeForm

\* exit_app without the loop that unlinks the files of the temporary folder
exit_app_keeping_files ==
    /\ ~destroyed
    /\ is_closing' = TRUE
    /\ after_id' = FALSE
    /\ destroyed' = TRUE
    /\ afterq' = <<>>
    /\ entries' = EmptyEntries
    /\ lbl_img' = NoLabel
    /\ btn_approve' = "destroyed"
    /\ btn_regen_text' = "destroyed"
    /\ btn_regen_img' = "destroyed"
    /\ renders' = 0
    /\ UNCHANGED <<viewing_index, current_word, last_loaded_path, cache, sinkVars,
                   fileVars, threadVars, quietVars, boundVars>>

\* ReviewApp.exit_app
exit_app ==
    /\ ~destroyed
    /\ is_closing' = TRUE
    /\ after_id' = FALSE
    /\ temp_files' = {}
    /\ destroyed' = TRUE
    /\ afterq' = <<>>
    /\ entries' = EmptyEntries
    /\ lbl_img' = NoLabel
    /\ btn_approve' = "destroyed"
    /\ btn_regen_text' = "destroyed"
    /\ btn_regen_img' = "destroyed"
    /\ renders' = 0
    /\ UNCHANGED <<viewing_index, current_word, last_loaded_path, cache, sinkVars,
                   final_files, threadVars, quietVars, boundVars>>

\* the precondition checks without the one for image_error
ApproveAcceptedIgnoringError(c, w) ==
    /\ w \in DOMAIN c
    /\ "image_path" \in DOMAIN c[w]

\* the precondition checks of ReviewApp.approve
ApproveAccepted(c, w) ==
    /\ w \in DOMAIN c
    /\ "image_error" \notin DOMAIN c[w]
    /\ "image_path" \in DOMAIN c[w]

\* ReviewApp.approve
approve ==
    /\ ~destroyed
    /\ btn_approve = "normal"
    /\ IF ApproveAccepted(cache, current_word)
       THEN /\ btn_approve' = "disabled"
            /\ approver' = [pc |-> "start", final_sentence |-> "", aud |-> NoPath]
       ELSE UNCHANGED <<btn_approve, approver>>
    /\ UNCHANGED <<viewVars, btn_regen_text, btn_regen_img, sinkVars, fileVars,
                   tasks, rtext, rimg, quietVars, boundVars, renders>>

\* ReviewApp._finish_approval
finish_approval ==
    LET v0 == [CurView EXCEPT !.vi = viewing_index + 1,
                              !.ent = EmptyEntries,
                              !.llp = NoPath,
                              !.lbl = [image |-> NoPath, text |-> TxtLoadingNext]]
        v == load_current_view(v0, word_queue, temp_files)
    IN  /\ ApplyView(v, Tail(afterq))
        /\ btn_approve' = Btn(v.destroyed, "normal")
        /\ btn_regen_text' = Btn(v.destroyed, btn_regen_text)
        /\ btn_regen_img' = Btn(v.destroyed, btn_regen_img)

\* _finish_text_regen enabling the Regen Image button as well
finish_text_regen_enabling_image ==
    /\ btn_regen_text' = "normal"
    /\ btn_regen_img' = "normal"
    /\ afterq' = Tail(afterq)
    /\ UNCHANGED <<viewing_index, current_word, entries, lbl_img, last_loaded_path,
                   cache, is_closing, after_id, destroyed, btn_approve>>

\* ReviewApp._finish_text_regen, and the lambda of _do_regen_text's failure branch
finish_text_regen ==
    /\ btn_regen_text' = "normal"
    /\ afterq' = Tail(afterq)
    /\ UNCHANGED <<viewing_index, current_word, entries, lbl_img, last_loaded_path,
                   cache, is_closing, after_id, destroyed, btn_approve, btn_regen_img>>

\* ReviewApp.finish_regen
finish_regen(path, error, word) ==
    /\ IF path # NoPath
       THEN /\ cache' = [cache EXCEPT ![word] = SetKey(@, "image_path", path)]
            /\ lbl_img' = show_image(lbl_img, path, temp_files)
            /\ last_loaded_path' = path
       ELSE IF error # ""
       THEN /\ cache' = [cache EXCEPT ![word] = SetKey(@, "image_error", error)]
            /\ lbl_img' = [lbl_img EXCEPT !.text = TxtRegenError(error)]
            /\ UNCHANGED last_loaded_path
       ELSE UNCHANGED <<cache, lbl_img, last_loaded_path>>
    /\ btn_regen_img' = "normal"
    /\ btn_regen_text' = "normal"
    /\ afterq' = Tail(afterq)
    /\ UNCHANGED <<viewing_index, current_word, entries, is_closing, after_id,
                   destroyed, btn_approve>>

\* the event loop runs the oldest root.after(0, ...) callback
RunCallback ==
    /\ ~destroyed
    /\ afterq # <<>>
    /\ LET cb == Head(afterq)
       IN  CASE cb.fn = "_finish_approval" -> finish_approval
             [] cb.fn = "_finish_text_regen" -> finish_text_regen
             [] cb.fn = "enable_regen_text" -> finish_text_regen
             [] cb.fn = "finish_regen" -> finish_regen(cb.path, cb.error, cb.word)
    /\ UNCHANGED <<sinkVars, fileVars, threadVars, sourceVars, historyVars, boundVars>>
    /\ SeeForm
    /\ RestartRun

\* ReviewApp.regen_text; cancel: the user dismissed the instruction dialog
regen_text ==
    /\ ~destroyed
    /\ btn_regen_text = "normal"
    /\ nuser < budget
    /\ \E cancel \in BOOLEAN :
          IF current_word \in DOMAIN cache /\ ~cancel
          THEN /\ btn_regen_text' = "disabled"
               /\ rtext' = rtext \cup {[id |-> nuser + 1, word |-> current_word,
                                        hint |-> Get(cache[current_word], "hint",
                                                     <<"N", "o", "n", "e">>)]}
               /\ nuser' = nuser + 1
          ELSE UNCHANGED <<btn_regen_text, rtext, nuser>>
    /\ UNCHANGED <<viewVars, btn_approve, btn_regen_img, sinkVars, fileVars, tasks,
                   approver, rimg, quietVars, now, renders>>

\* ReviewApp.regen_image; the scenario it reads from the text box goes into the
\* request of the image call and nowhere else
regen_image ==
    /\ ~destroyed
    /\ btn_regen_img = "normal"
    /\ nuser < budget
    /\ lbl_img' = [image |-> NoPath, text |-> TxtRegenerating]
    /\ btn_regen_img' = "disabled"
    /\ btn_regen_text' = "disabled"
    /\ rimg' = rimg \cup {[id |-> nuser + 1, word |-> current_word,
                           pc |-> "start", file |-> NoPath]}
    /\ nuser' = nuser + 1
    /\ regen_had_error' = (current_word \in DOMAIN cache
                           /\ "image_error" \in DOMAIN cache[current_word])
    /\ UNCHANGED <<viewing_index, current_word, entries, last_loaded_path, cache,
                   is_closing, after_id, destroyed, afterq, btn_approve, sinkVars,
                   fileVars, tasks, approver, rtext, fixedVars, off_loop_access,
                   regen_text_result, now>>
    /\ RestartRun

\* the user types in one of the text boxes
UserEdit ==
    /\ ~destroyed
    /\ nuser < budget
    /\ \E f \in Fields, t \in UserTexts :
          /\ entries[f] # t
          /\ entries' = [entries EXCEPT ![f] = t]
    /\ nuser' = nuser + 1
    /\ renders' = 0
    /\ UNCHANGED <<viewing_index, current_word, lbl_img, last_loaded_path, cache,
                   is_closing, after_id, destroyed, afterq, buttons, sinkVars,
                   fileVars, threadVars, sourceVars, historyVars, now>>
    /\ SeeForm

---------------------------------------------------------------------------
(* The executor's work items: ReviewApp.process_single_card *)

Running(t) == Cardinality({i \in 1..Len(t) : t[i].pc \in {"text", "image"}})

\* the image part of process_single_card without the test for image_error
ImageCheck_ignoring_error(task, entry, t) ==
    IF "image_path" \notin DOMAIN entry /\ ~destroyed
    THEN [task EXCEPT !.pc = "image", !.file = SafeName(task.word, t, "png"),
                      !.scenario = Get(entry, "scenario", "")]
    ELSE [task EXCEPT !.pc = "done"]

\* line 383 on: the image part of process_single_card up to the image call, at
\* second t.  Once the root is destroyed update_status raises and the work item ends.
ImageCheck(task, entry, t) ==
    IF "image_path" \notin DOMAIN entry /\ "image_error" \notin DOMAIN entry /\ ~destroyed
    THEN [task EXCEPT !.pc = "image", !.file = SafeName(task.word, t, "png"),
                      !.scenario = Get(entry, "scenario", "")]
    ELSE [task EXCEPT !.pc = "done"]

\* the clock moves to t if the step read it
ReadClock(read, t) ==
    now' = IF read THEN t ELSE now

\* a worker of the pool takes the oldest queued work item and runs it up to its
\* first external call
TaskStart(i) ==
    /\ tasks[i].pc = "queued"
    /\ \A j \in 1..(i - 1) : tasks[j].pc # "queued"
    /\ Running(tasks) < MAX_WORKERS
    /\ \E t \in Clock :
          LET entry == cache[tasks[i].word]
              task == IF "definition" \notin DOMAIN entry
                      THEN IF destroyed THEN [tasks[i] EXCEPT !.pc = "done"]
                           ELSE [tasks[i] EXCEPT !.pc = "text"]
                      ELSE ImageCheck(tasks[i], entry, t)
          IN  /\ tasks' = [tasks EXCEPT ![i] = task]
              /\ ReadClock(task.pc = "image", t)
    /\ UNCHANGED <<viewVars, buttons, sinkVars, fileVars, approver, rtext, rimg,
                   quietVars, nuser, renders>>

\* generate_text_data returns to process_single_card: None (ok = FALSE) or a record
TaskTextReturn(i) ==
    /\ tasks[i].pc = "text"
    /\ \E ok \in BOOLEAN, v \in PrefetchTexts, t \in Clock :
          LET w == tasks[i].word
              entry == IF ok THEN Update(cache[w], TextData(v)) ELSE cache[w]
              task == ImageCheck(tasks[i], entry, t)
          IN  /\ ~ok => v = 1
              /\ cache' = [cache EXCEPT ![w] = entry]
              /\ tasks' = [tasks EXCEPT ![i] = task]
              /\ ReadClock(task.pc = "image", t)
    /\ UNCHANGED <<viewing_index, current_word, entries, lbl_img, last_loaded_path,
                   is_closing, after_id, destroyed, afterq, buttons, sinkVars,
                   fileVars, approver, rtext, rimg, quietVars, nuser>>
    /\ RestartRun

\* generate_image_fireworks returns to process_single_card: (path, None), with the
\* file written, or (None, error)
TaskImageReturn(i) ==
    /\ tasks[i].pc = "image"
    /\ LET w == tasks[i].word
       IN  \/ /\ temp_files' = temp_files \cup {tasks[i].file}
              /\ cache' = [cache EXCEPT ![w] = SetKey(@, "image_path", tasks[i].file)]
           \/ /\ \E e \in PrefetchErrors :
                    cache' = [cache EXCEPT ![w] = SetKey(@, "image_error", e)]
              /\ UNCHANGED temp_files
    /\ tasks' = [tasks EXCEPT ![i] = [@ EXCEPT !.pc = "done", !.file = NoPath,
                                                !.scenario = ""]]
    /\ UNCHANGED <<viewing_index, current_word, entries, lbl_img, last_loaded_path,
                   is_closing, after_id, destroyed, afterq, buttons, sinkVars,
                   final_files, approver, rtext, rimg, quietVars, boundVars>>
    /\ RestartRun

---------------------------------------------------------------------------
(* The regeneration threads *)

\* generate_text_data returns to _do_regen_text
RegenTextReturn(t) ==
    /\ t \in rtext
    /\ \E ok \in BOOLEAN, v \in RegenTexts :
          /\ ~ok => v = 1
          /\ IF ok
             THEN /\ cache' = [cache EXCEPT ![t.word] =
                                  Update(@, Update(TextData(v),
                                                   [k \in {"force_text_update"} |-> TRUE]))]
                  /\ afterq' = Post(afterq, [fn |-> "_finish_text_regen"])
                  /\ regen_text_result' = SetKey(regen_text_result, t.word, TextData(v))
             ELSE /\ afterq' = Post(afterq, [fn |-> "enable_regen_text"])
                  /\ UNCHANGED <<cache, regen_text_result>>
    /\ rtext' = rtext \ {t}
    /\ UNCHANGED <<viewing_index, current_word, entries, lbl_img, last_loaded_path,
                   is_closing, after_id, destroyed, buttons, sinkVars, fileVars,
                   tasks, approver, rimg, fixedVars, regen_had_error, off_loop_access,
                   boundVars>>
    /\ RestartRun

\* _do_regen_image up to the image call
RegenImageStart(t) ==
    /\ t \in rimg
    /\ t.pc = "start"
    /\ LET old_path == Get(cache[t.word], "image_path", NoPath)
       IN  /\ cache' = [cache EXCEPT ![t.word] = DelKey(@, "image_error")]
           /\ temp_files' = temp_files \ {old_path}
    /\ \E s \in Clock :
          /\ rimg' = (rimg \ {t}) \cup
                        {[t EXCEPT !.pc = "call", !.file = SafeName(t.word, s, "png")]}
          /\ now' = s
    /\ UNCHANGED <<viewing_index, current_word, entries, lbl_img, last_loaded_path,
                   is_closing, after_id, destroyed, afterq, buttons, sinkVars,
                   final_files, tasks, approver, rtext, quietVars, nuser>>
    /\ RestartRun

\* generate_image_fireworks returns to _do_regen_image
RegenImageReturn(t) ==
    /\ t \in rimg
    /\ t.pc = "call"
    /\ \/ /\ temp_files' = temp_files \cup {t.file}
          /\ afterq' = Post(afterq, [fn |-> "finish_regen", path |-> t.file,
                                     error |-> "", word |-> t.word])
       \/ /\ \E e \in RegenErrors :
                afterq' = Post(afterq, [fn |-> "finish_regen", path |-> NoPath,
                                        error |-> e, word |-> t.word])
          /\ UNCHANGED temp_files
    /\ rimg' = rimg \ {t}
    /\ UNCHANGED <<viewing_index, current_word, entries, lbl_img, last_loaded_path,
                   cache, is_closing, after_id, destroyed, buttons, sinkVars,
                   final_files, tasks, approver, rtext, quietVars, boundVars, renders>>

---------------------------------------------------------------------------
(* The approval thread: ReviewApp._approve_worker *)

DeadApprover == [pc |-> "dead", final_sentence |-> "", aud |-> NoPath]

\* the thread was ended by the exception of the append to CSV_FILE
AppendFailed == [pc |-> "append_failed", final_sentence |-> "", aud |-> NoPath]

\* _approve_worker up to the audio call; reading a widget of a destroyed root raises
ApproveStart ==
    /\ approver.pc = "start"
    /\ \E t \in Clock :
          /\ approver' = IF destroyed THEN DeadApprover
                         ELSE [pc |-> "audio",
                               final_sentence |-> StripText(entries["Sentence"]),
                               aud |-> SafeName(current_word, t, "mp3")]
          /\ ReadClock(~destroyed, t)
    /\ off_loop_access' = TRUE
    /\ form_seen' = IF destroyed THEN {} ELSE {entries}
    /\ UNCHANGED <<viewVars, buttons, sinkVars, fileVars, tasks, rtext, rimg,
                   sourceVars, regen_had_error, regen_text_result, nuser, renders>>

\* the row _approve_worker writes
RowData(word, ent, final_sentence, img_name, aud_name) ==
    [Target |-> word,
     Definition |-> StripText(ent["Definition"]),
     Sentence |-> final_sentence,
     Translation |-> StripText(ent["Translation"]),
     Scenario |-> StripText(ent["Scenario"]),
     Image |-> img_name,
     Audio |-> aud_name]

\* _approve_worker taking the name of the clip without the test for None: a failed
\* audio call ends the thread
ApproveAudioReturn_audio_required ==
    /\ approver.pc = "audio"
    /\ \E audioOk \in BOOLEAN, csvOk \in BOOLEAN :
          LET aud_path == IF audioOk THEN approver.aud ELSE NoPath
              temp1 == IF audioOk THEN temp_files \cup {approver.aud} ELSE temp_files
              img_temp == cache[current_word]["image_path"]
              img_there == img_temp \in temp1
              temp2 == temp1 \ {img_temp}
              final2 == final_files \cup {img_temp}
              temp3 == temp2 \ {aud_path}
              final3 == IF aud_path # NoPath THEN final2 \cup {aud_path} ELSE final2
              row == RowData(current_word, entries, approver.final_sentence,
                             img_temp, aud_path)
          IN  IF ~img_there \/ ~audioOk
              THEN \* shutil.move and shutil.copy both raise; the append is not reached
                   /\ csvOk
                   /\ UNCHANGED off_loop_access
                   /\ temp_files' = temp1
                   /\ UNCHANGED <<final_files, csv>>
                   /\ approver' = DeadApprover
              ELSE IF destroyed \/ ~csvOk
              THEN \* the widget read, or the append, raises
                   /\ destroyed => csvOk
                   /\ off_loop_access' = TRUE
                   /\ temp_files' = temp3
                   /\ final_files' = final3
                   /\ UNCHANGED csv
                   /\ approver' = IF destroyed THEN DeadApprover ELSE AppendFailed
              ELSE /\ temp_files' = temp3
                   /\ final_files' = final3
                   /\ csv' = Append(csv, row)
                   /\ off_loop_access' = TRUE
                   /\ approver' = [approver EXCEPT !.pc = "mark", !.aud = aud_path]
    /\ form_seen' = {}
    /\ UNCHANGED <<viewVars, buttons, sheet, tasks, rtext, rimg, sourceVars,
                   regen_had_error, regen_text_result, boundVars, renders>>

\* generate_audio_azure returns to _approve_worker, which moves the files and
\* appends the row; audioOk: the clip was written; csvOk: the append did not raise
ApproveAudioReturn ==
    /\ approver.pc = "audio"
    /\ \E audioOk \in BOOLEAN, csvOk \in BOOLEAN :
          LET aud_path == IF audioOk THEN approver.aud ELSE NoPath
              temp1 == IF audioOk THEN temp_files \cup {approver.aud} ELSE temp_files
              img_temp == cache[current_word]["image_path"]
              img_there == img_temp \in temp1
              temp2 == temp1 \ {img_temp}
              final2 == final_files \cup {img_temp}
              temp3 == temp2 \ {aud_path}
              final3 == IF aud_path # NoPath THEN final2 \cup {aud_path} ELSE final2
              row == RowData(current_word, entries, approver.final_sentence,
                             img_temp, aud_path)
          IN  IF ~img_there
              THEN \* shutil.move and shutil.copy both raise; the append is not reached
                   /\ csvOk
                   /\ UNCHANGED off_loop_access
                   /\ temp_files' = temp1
                   /\ UNCHANGED <<final_files, csv>>
                   /\ approver' = DeadApprover
              ELSE IF destroyed \/ ~csvOk
              THEN \* the widget read, or the append, raises
                   /\ destroyed => csvOk
                   /\ off_loop_access' = TRUE
                   /\ temp_files' = temp3
                   /\ final_files' = final3
                   /\ UNCHANGED csv
                   /\ approver' = IF destroyed THEN DeadApprover ELSE AppendFailed
              ELSE /\ temp_files' = temp3
                   /\ final_files' = final3
                   /\ csv' = Append(csv, row)
                   /\ off_loop_access' = TRUE
                   /\ approver' = [approver EXCEPT !.pc = "mark", !.aud = aud_path]
    /\ form_seen' = {}
    /\ UNCHANGED <<viewVars, buttons, sheet, tasks, rtext, rimg, sourceVars,
                   regen_had_error, regen_text_result, boundVars, renders>>

\* update_cell returns to mark_as_done (markOk = FALSE: it raised, and mark_as_done
\* swallowed it); _approve_worker posts _finish_approval and ends
ApproveMarkReturn ==
    /\ approver.pc = "mark"
    /\ \E markOk \in BOOLEAN :
          sheet' = IF markOk
                   THEN mark_as_done(sheet, raw_data[viewing_index + 1].row_idx)
                   ELSE sheet
    /\ afterq' = Post(afterq, [fn |-> "_finish_approval"])
    /\ approver' = IF destroyed THEN DeadApprover ELSE IdleApprover
    /\ UNCHANGED <<viewing_index, current_word, entries, lbl_img, last_loaded_path,
                   cache, is_closing, after_id, destroyed, buttons, csv, fileVars,
                   tasks, rtext, rimg, quietVars, boundVars, renders>>

---------------------------------------------------------------------------
(* The specification *)

Next ==
    \/ Tick
    \/ exit_app
    \/ approve
    \/ RunCallback
    \/ regen_text
    \/ regen_image
    \/ UserEdit
    \/ \E i \in 1..Len(tasks) : TaskStart(i)
    \/ \E i \in 1..Len(tasks) : TaskTextReturn(i)
    \/ \E i \in 1..Len(tasks) : TaskImageReturn(i)
    \/ \E t \in rtext : RegenTextReturn(t)
    \/ \E t \in rimg : RegenImageStart(t)
    \/ \E t \in rimg : RegenImageReturn(t)
    \/ ApproveStart
    \/ ApproveAudioReturn
    \/ ApproveMarkReturn

Spec == Init /\ [][Next]_vars

\* the sessions on a sheet of one row, followed for one more edit or regeneration
ShortInit ==
    \E sh \in {s \in Sheets : Len(s) = 1}, readOk \in BOOLEAN :
        InitFrom(sh, readOk) /\ call = NoCall /\ budget = MaxUserActions + 1

ShortSpec == ShortInit /\ [][Next]_vars

---------------------------------------------------------------------------
(* Notions the claims use *)

HasPath(entry) == "image_path" \in DOMAIN entry

HasError(entry) == "image_error" \in DOMAIN entry

\* the words of the queue, as the review controller computes them
QueueWords == {ViewWord(word_queue[i]) : i \in 1..Len(word_queue)}

\* the work items submitted for word w
TasksOf(w) == {i \in DOMAIN tasks : tasks[i].word = w}

\* the background threads that are running and write the cache entry of word w
WritersOf(w) ==
    Cardinality({i \in TasksOf(w) : tasks[i].pc \in {"text", "image"}})
    + Cardinality({t \in rtext : t.word = w})
    + Cardinality({t \in rimg : t.word = w})

---------------------------------------------------------------------------
(* The claims *)

\* C1: in every reachable state no cache entry has both image_path and image_error.
C1_PathXorError ==
    \A w \in DOMAIN cache : ~(HasPath(cache[w]) /\ HasError(cache[w]))

\* C7: the prefetch scheduler submits exactly one work item per distinct word of the
\* queue.
C7_OneTaskPerWord ==
    \A w \in QueueWords : Cardinality(TasksOf(w)) = 1

\* C8: at no time do two background threads (work items, text regenerations, image
\* regenerations) write the cache entry of the same word.
C8_SingleWriter ==
    \A w \in DOMAIN cache : WritersOf(w) <= 1


\* what Approve requires of the focused card, stated on the cache
Approvable == current_word \in DOMAIN cache
              /\ HasPath(cache[current_word])
              /\ ~HasError(cache[current_word])

\* a step that writes to the sink, marks a source row or moves the cursor
CommitStep == csv' # csv \/ sheet' # sheet \/ viewing_index' # viewing_index

\* C2 (as claimed): no sink write, done-mark or cursor advance ever happens for a card
\* whose cache entry lacks image_path or carries image_error at that moment.
C2_CommitOnlyWhenApprovable ==
    [][CommitStep => Approvable]_vars

\* C2 (amended): Approve is rejected whenever the focused card has no image_path or
\* has image_error at the moment Approve is invoked: nothing changes then, no approval
\* thread starts.  An approval thread starts only from a card that has image_path and
\* no image_error at that moment, and every sink write, done-mark and cursor advance
\* is a step of such an approval: rows are written only by the thread after its audio
\* call, rows are marked only by the thread after its row, and the cursor moves only
\* while Approve is disabled for the approval in flight.
C2_ApproveGate ==
    [][/\ (approve /\ ~Approvable) => UNCHANGED vars
       /\ (approver.pc # "start" /\ approver'.pc = "start") => Approvable
       /\ csv' # csv => approver.pc = "audio"
       /\ sheet' # sheet => approver.pc = "mark"
       /\ viewing_index' # viewing_index => btn_approve = "disabled"]_vars

\* C2 witness: after one approval has committed, the focused card carries an image
\* error and Approve is enabled, so that invoking it is rejected.
C2_Witness ==
    /\ ~destroyed
    /\ btn_approve = "normal"
    /\ Len(csv) = 1
    /\ viewing_index = 1
    /\ HasError(cache[current_word])

\* the queue positions whose source row is marked done
SessionMarks ==
    {i \in 1..Len(raw_data) : sheet[raw_data[i].row_idx - 1].Status = Done}

\* no approval is in flight: Approve is enabled and no approval thread exists
NoApprovalInFlight == btn_approve = "normal" /\ approver.pc = "idle"

\* C3 (as claimed): whenever no approval is in flight, the number of sink rows, the
\* number of done-marks and viewing_index are equal.
C3_RowsMarksCursorEqual ==
    NoApprovalInFlight =>
        /\ Len(csv) = viewing_index
        /\ Cardinality(SessionMarks) = viewing_index

\* C3 (amended): the rows of the sink are the rows of the first queue items, one per
\* item and in queue order; a done-mark is only ever on the source row of an item whose
\* row is in the sink; the sink is at most one row ahead of viewing_index, and
\* whenever no approval is in flight, or the queue is finished, the number of sink
\* rows equals viewing_index and the number of done-marks is at most that (a sheet
\* update that fails is swallowed).
C3_RowsMarksCursor ==
    /\ \A i \in 1..Len(csv) : i <= Len(word_queue) /\ csv[i].Target = ViewWord(word_queue[i])
    /\ SessionMarks \subseteq 1..Len(csv)
    /\ Len(csv) \in {viewing_index, viewing_index + 1}
    /\ (NoApprovalInFlight \/ viewing_index = Len(word_queue)) =>
          /\ Len(csv) = viewing_index
          /\ Cardinality(SessionMarks) <= viewing_index

\* C3 witness: the first approval of a queue of two has completed, its sheet update
\* having failed, and no approval is in flight.
C3_Witness ==
    /\ NoApprovalInFlight
    /\ Len(word_queue) = 2
    /\ viewing_index = 1
    /\ Len(csv) = 1
    /\ SessionMarks = {}

\* C5: viewing_index never exceeds the queue length; once it equals the queue length
\* the session has reported completion and terminated (is_closing set, root
\* destroyed, no timer pending), and afterwards no reconciliation tick, approval,
\* callback or cursor change occurs.
C5_Completion ==
    [][/\ viewing_index' <= Len(word_queue')
       /\ (word_queue' # <<>> /\ viewing_index' = Len(word_queue')) =>
             is_closing' /\ destroyed' /\ ~after_id'
       /\ (word_queue # <<>> /\ viewing_index = Len(word_queue)) =>
             /\ viewing_index' = viewing_index
             /\ ~Tick /\ ~approve /\ ~RunCallback
             /\ UNCHANGED <<csv, sheet, is_closing, destroyed, after_id>>]_vars

\* C5 witness: the last card of a queue of two has been approved.
C5_Witness ==
    /\ Len(word_queue) = 2
    /\ viewing_index = 2
    /\ is_closing
    /\ Len(csv) = 2


\* the event loop runs finish_regen with a path for the focused word
RegenSucceeds ==
    /\ RunCallback
    /\ Head(afterq).fn = "finish_regen"
    /\ Head(afterq).path # NoPath
    /\ Head(afterq).word = current_word

\* C4: Regenerate-image invoked on a focused card whose cache entry has image_error
\* removes that error, and if the regenerated image call succeeds the card then
\* satisfies Approve's preconditions (image_path present, image_error absent).
C4_RegenMakesApprovable ==
    [][/\ \A t \in rimg : RegenImageStart(t) => ~HasError(cache'[t.word])
       /\ (RegenSucceeds /\ regen_had_error) => Approvable']_vars


---------------------------------------------------------------------------
(* Exit *)

\* the temporary images
TempImages(files) == {f \in files : f[3] = "png"}

\* the image files of the generation calls in flight
ImagesInFlight ==
    {tasks[i].file : i \in {j \in 1..Len(tasks) : tasks[j].pc = "image"}}
        \cup {t.file : t \in {r \in rimg : r.pc = "call"}}

\* the session was ended by Exit before the queue was finished
ExitedMidSession == destroyed /\ viewing_index < Len(word_queue)

\* the step in which Exit ends the session
ExitStep == ~destroyed /\ destroyed' /\ viewing_index' < Len(word_queue)

IsPrefix(s, t) == Len(s) <= Len(t) /\ \A i \in 1..Len(s) : s[i] = t[i]

DoneRows(sh) == {i \in 1..Len(sh) : sh[i].Status = Done}

---------------------------------------------------------------------------
(* Reconciliation *)

\* C9: over consecutive ticks during which the cache entry of the focused word and the
\* user's input do not change, the image area is re-rendered at most once.
C9_AtMostOneRender == renders <= 1

\* C9, apart from the entries that carry both image_path and image_error
C9_AtMostOneRenderUnlessBoth ==
    renders <= 1 \/ /\ current_word \in DOMAIN cache
                    /\ HasPath(cache[current_word])
                    /\ HasError(cache[current_word])

ForceFlag(data) == Get(data, "force_text_update", FALSE)

\* C10: a tick overwrites the visible text fields only when the cache entry has text
\* and either the visible fields are empty or force_text_update is set; it never
\* overwrites a non-empty visible field while the flag is unset; and a tick that
\* observes the flag clears it.
C10_TextOverwrite ==
    [][(Tick /\ ~destroyed') =>
          LET data == FocusedEntry(cache, current_word)
          IN  /\ entries' # entries =>
                    /\ "definition" \in DOMAIN data
                    /\ \/ \A f \in Fields : StripText(entries[f]) = ""
                       \/ ForceFlag(data)
              /\ \A f \in Fields :
                    (StripText(entries[f]) # "" /\ ~ForceFlag(data))
                        => entries'[f] = entries[f]
              /\ "force_text_update" \notin
                    DOMAIN FocusedEntry(cache', current_word')]_vars


---------------------------------------------------------------------------
(* The approval worker's row *)

\* the step in which _approve_worker appends its row
RowWritten == Len(csv') = Len(csv) + 1

TextFields == {"Definition", "Sentence", "Translation", "Scenario"}

\* the value of field f in row r
RowField(r, f) ==
    CASE f = "Definition" -> r.Definition
      [] f = "Sentence" -> r.Sentence
      [] f = "Translation" -> r.Translation
      [] f = "Scenario" -> r.Scenario

\* C11: the sink row written for an approved card carries, for Definition, Sentence,
\* Translation and Scenario, the values the editable fields hold at commit time, when
\* the row is written.
C11_RowCarriesFields ==
    [][RowWritten =>
          \A f \in TextFields :
              RowField(csv'[Len(csv')], f) = StripText(entries[f])]_vars


\* C12: if the sink append of an approval fails, the item's source row is not marked
\* done, viewing_index is not advanced, and the session goes on: the window stays
\* and Approve is available again once the worker has ended.
C12_AppendFailureRecoverable ==
    (approver.pc = "append_failed" /\ ~destroyed) =>
        /\ viewing_index + 1 \notin SessionMarks
        /\ Len(csv) = viewing_index
        /\ btn_approve = "normal"

\* after a failed append nothing re-enables Approve and no later approval runs
C12_ButtonStaysDisabled ==
    [][approver.pc = "append_failed" =>
          /\ approver' = approver
          /\ btn_approve' \in {"disabled", "destroyed"}
          /\ UNCHANGED <<csv, sheet, viewing_index>>]_vars


\* the approval worker is at the step that follows the audio call
AtAudioReturn == approver.pc = "audio" /\ approver' # approver

\* C13: audio synthesis is best-effort.  The worker is ended at the step after the
\* audio call only by a missing image file, a destroyed window or a failed append,
\* never by a failed audio call; otherwise it appends its row, with an empty Audio
\* field when the audio call failed, then calls mark_as_done and posts
\* _finish_approval, which advances viewing_index by one.
C13_AudioBestEffort ==
    [][/\ (AtAudioReturn /\ approver'.pc = "dead") =>
              \/ destroyed
              \/ cache[current_word]["image_path"] \notin temp_files
       /\ (AtAudioReturn /\ approver'.pc \notin {"dead", "append_failed"}) =>
              /\ approver'.pc = "mark"
              /\ RowWritten
              /\ csv'[Len(csv')].Audio = approver'.aud
              /\ approver'.aud \in {NoPath, approver.aud}
       /\ (approver.pc = "mark" /\ approver' # approver) =>
              /\ sheet' \in {sheet, mark_as_done(sheet, raw_data[viewing_index + 1].row_idx)}
              /\ ~destroyed => afterq' = Append(afterq, [fn |-> "_finish_approval"])
       /\ (RunCallback /\ Head(afterq).fn = "_finish_approval") =>
              viewing_index' = viewing_index + 1]_vars

\* C13 witness: an approval whose audio call failed has completed: its row, with an
\* empty Audio field, is in the sink, its source row is marked done and the cursor
\* has advanced.
C13_Witness ==
    /\ Len(word_queue) = 2
    /\ viewing_index = 1
    /\ Len(csv) = 1
    /\ csv[1].Audio = NoPath
    /\ SessionMarks = {1}
    /\ btn_approve = "normal"


---------------------------------------------------------------------------
(* Threads and widgets *)

\* a step of the event loop: a handler, a timer or a callback
EventLoopStep ==
    Tick \/ exit_app \/ approve \/ RunCallback \/ regen_text \/ regen_image \/ UserEdit

\* C14: background threads never read or write the form widgets (the text boxes, the
\* image label, the buttons): every step that is not a step of the event loop leaves
\* them unchanged and reads none of them.
C14_NoWidgetAccessOffLoop ==
    [][~EventLoopStep => /\ UNCHANGED <<entries, lbl_img, buttons>>
                         /\ ~off_loop_access']_vars

\* C14 for writing alone: no step of a background thread changes a widget
C14_NoWidgetWriteOffLoop ==
    [][~EventLoopStep => UNCHANGED <<entries, lbl_img, buttons>>]_vars


---------------------------------------------------------------------------
(* The work items *)

\* work item i starts a call of the text client, or of the image client
CallsText(i) == tasks[i].pc # "text" /\ tasks'[i].pc = "text"

CallsImage(i) == tasks[i].pc # "image" /\ tasks'[i].pc = "image"

\* the image call of work item i returns
ImageReturns(i) == tasks[i].pc = "image" /\ tasks'[i].pc # "image"

\* C15: a work item calls the text client only if the cache entry of its word lacks a
\* definition, and the image client only if the entry lacks both image_path and
\* image_error, with the scenario of the entry; it never retries: it goes from the
\* text call to the image call to its end and never back, so it makes at most one
\* call of each; a successful image call sets image_path to the file written and a
\* failed one sets image_error.
C15_WorkItemCalls ==
    [][\A i \in 1..Len(tasks) :
          LET w == tasks[i].word
          IN  /\ CallsText(i) => /\ tasks[i].pc = "queued"
                                 /\ "definition" \notin DOMAIN cache[w]
              /\ CallsImage(i) => /\ tasks[i].pc \in {"queued", "text"}
                                  /\ ~HasPath(cache'[w])
                                  /\ ~HasError(cache'[w])
                                  /\ tasks'[i].scenario = Get(cache'[w], "scenario", "")
              /\ tasks[i].pc = "done" => tasks'[i] = tasks[i]
              /\ tasks[i].pc = "text" => tasks'[i].pc \in {"text", "image", "done"}
              /\ ImageReturns(i) =>
                    /\ tasks'[i].pc = "done"
                    /\ \/ /\ HasPath(cache'[w])
                          /\ cache'[w]["image_path"] = tasks[i].file
                          /\ tasks[i].file \in temp_files'
                          /\ HasError(cache'[w]) = HasError(cache[w])
                       \/ /\ HasError(cache'[w])
                          /\ cache'[w]["image_error"] \in PrefetchErrors
                          /\ HasPath(cache'[w]) = HasPath(cache[w])
                          /\ temp_files' = temp_files]_vars

\* C15 witness: both work items of a two-word queue have ended, one after a successful
\* image call and one after a failed one, each with its text in the cache.
C15_Witness ==
    /\ Len(tasks) = 2
    /\ tasks[1].word # tasks[2].word
    /\ \A i \in 1..2 : /\ tasks[i].pc = "done"
                       /\ "definition" \in DOMAIN cache[tasks[i].word]
    /\ HasPath(cache[tasks[1].word]) /\ ~HasError(cache[tasks[1].word])
    /\ HasError(cache[tasks[2].word]) /\ ~HasPath(cache[tasks[2].word])


---------------------------------------------------------------------------
(* Text regeneration *)

\* the value of text record d for the text box f
FieldValue(d, f) ==
    CASE f = "Definition" -> d.definition
      [] f = "Sentence" -> d.sentence
      [] f = "Translation" -> d.translation
      [] f = "Scenario" -> d.scenario

\* a tick finds force_text_update in the entry of the focused word
TickObservesFlag ==
    Tick /\ ~destroyed' /\ ForceFlag(FocusedEntry(cache, current_word))

\* a text regeneration ends in failure
RegenTextFails ==
    /\ rtext' # rtext
    /\ rtext' \subseteq rtext
    /\ ~destroyed
    /\ afterq' = Append(afterq, [fn |-> "enable_regen_text"])

\* C16: after a successful text regeneration for the focused word the next tick makes
\* the visible text fields equal to the regenerated values, whatever they held, and
\* removes force_text_update; a failed text regeneration changes neither the cache nor
\* the visible fields.
C16_RegenTextShown ==
    [][/\ TickObservesFlag =>
             /\ \A f \in Fields :
                   entries'[f] = FieldValue(regen_text_result[current_word], f)
             /\ "force_text_update" \notin DOMAIN cache'[current_word]
       /\ RegenTextFails => UNCHANGED <<cache, entries>>]_vars

\* C16 for the values the cache holds when the tick runs: the tick makes the visible
\* fields equal to the text of the entry and removes the flag
C16_CacheTextShown ==
    [][TickObservesFlag =>
          /\ \A f \in Fields : entries'[f] = FieldValue(cache[current_word], f)
          /\ "force_text_update" \notin DOMAIN cache'[current_word]]_vars

----------------------------------------------------------------------------
(* The functions called on their own. A call takes its arguments from bounded
   sets and runs to its return; no session is open meanwhile. *)

appVars == <<sheet, raw_data, word_queue, cache, current_word, viewing_index,
             is_closing, after_id, last_loaded_path, destroyed, entries, lbl_img,
             btn_approve, btn_regen_text, btn_regen_img, afterq, tasks, approver,
             rtext, rimg, nuser, now, temp_files, final_files, csv,
             renders, regen_had_error, off_loop_access, regen_text_result,
             form_seen, budget>>

MaxRecords == 3

\* the cells of a sheet: words with and without surrounding blanks, blank words,
\* and statuses in several spellings
CellWords == { <<"a">>, <<" ", "b", " ">>, <<>>, <<" ">> }

CellStatuses == { <<>>, <<"D", "O", "N", "E">>, <<" ", "d", "o", "n", "e", " ">>, <<"h">> }

RECURSIVE SeqsUpTo(_, _)
SeqsUpTo(S, n) ==
    IF n = 0 THEN { <<>> }
    ELSE LET shorter == SeqsUpTo(S, n - 1)
         IN  shorter \cup { Append(s, x) : s \in {t \in shorter : Len(t) = n - 1}, x \in S }

RecordLists == SeqsUpTo({ Row(w, st) : w \in CellWords, st \in CellStatuses }, MaxRecords)

Limits == {1, 2, BATCH_LIMIT}

\* raw entries: texts and hints, one or two words, with and without parentheses of
\* their own; an entry is a text alone or a text, a blank and the hint in parentheses
RawTexts == { <<"a">>, <<"a", " ", "b">>, <<"a", " ", "(", "b", ")">> }

RawHints == { <<"h">>, <<"h", " ", "b">>, <<"h", " ", "(", "b", ")">> }

WithHint(X, Y) == X \o <<" ", "(">> \o Y \o <<")">>

RawEntries ==
    {X \in RawTexts : ~Contains(X, "(")} \cup {WithHint(X, Y) : X \in RawTexts, Y \in RawHints}

ParseCalls ==
    { [fn |-> f, pc |-> "called", raw |-> r, out |-> <<>>] :
      f \in {"start_prefetching", "process_word"}, r \in RawEntries }

FetchCalls ==
    { [fn |-> "fetch_pending_words", pc |-> "called", records |-> r, limit |-> l,
       readOk |-> ok, out |-> <<>>] :
      r \in RecordLists, l \in Limits, ok \in BOOLEAN }

----------------------------------------------------------------------------
(* Configuration loading *)

DEFAULT_CONFIG ==
    [generation |-> [image_mode |-> "mini", azure_voice |-> "es-MX-JorgeNeural"],
     paths |-> [anki_media_folder |-> "collection.media",
                temp_folder |-> "temp_images",
                output_csv |-> "ready_for_anki.csv"],
     app_settings |-> [sheet_name |-> "Anki_Inbox",
                       batch_limit |-> BATCH_LIMIT,
                       max_workers |-> MAX_WORKERS]]

\* the options the module reads from CFG when it is imported
StartupOptions ==
    { <<"paths", "anki_media_folder">>, <<"paths", "temp_folder">>,
      <<"paths", "output_csv">>,
      <<"app_settings", "sheet_name">>, <<"app_settings", "batch_limit">>,
      <<"app_settings", "max_workers">>,
      <<"generation", "target_language">>, <<"generation", "image_quality">>,
      <<"generation", "cefr_lvl">>, <<"generation", "suggested_length">> }

\* the keys a user's file can give in a section: those of DEFAULT_CONFIG and those
\* read at startup
SectionKeys(section) ==
    DOMAIN DEFAULT_CONFIG[section] \cup {o[2] : o \in {x \in StartupOptions : x[1] = section}}

\* the value a user's file gives to a key
UserValue(k) == <<"user", k>>

\* a section as a user's file gives it: any subset of its keys
UserSections(section) ==
    { [k \in K |-> UserValue(k)] : K \in SUBSET SectionKeys(section) }

Absent == [absent |-> TRUE]

\* the contents of config.json: any subset of the sections
UserConfigs ==
    { LET given == [generation |-> g, paths |-> p, app_settings |-> a]
      IN  [sec \in {x \in DOMAIN given : given[x] # Absent} |-> given[sec]] :
      g \in UserSections("generation") \cup {Absent},
      p \in UserSections("paths") \cup {Absent},
      a \in UserSections("app_settings") \cup {Absent} }

\* config.json does not exist; json.load raises
Missing == [exists |-> FALSE]

Unreadable == [exists |-> TRUE, readable |-> FALSE]

ConfigFiles == { [exists |-> TRUE, readable |-> TRUE, json |-> c] : c \in UserConfigs }

\* the merge loop of load_config over the sections of DEFAULT_CONFIG
MergeDefaults(user_config) ==
    [section \in DOMAIN user_config \cup DOMAIN DEFAULT_CONFIG |->
        IF section \notin DOMAIN DEFAULT_CONFIG THEN user_config[section]
        ELSE IF section \notin DOMAIN user_config THEN DEFAULT_CONFIG[section]
        ELSE [k \in DOMAIN user_config[section] \cup DOMAIN DEFAULT_CONFIG[section] |->
                 IF k \in DOMAIN user_config[section] THEN user_config[section][k]
                 ELSE DEFAULT_CONFIG[section][k]]]

load_config(file) ==
    IF file = Missing THEN DEFAULT_CONFIG
    ELSE IF file = Unreadable THEN DEFAULT_CONFIG
    ELSE MergeDefaults(file.json)

\* the shortcut variables read CFG[section][key]; a missing key raises KeyError
Startup(CFG) ==
    IF \A o \in StartupOptions : o[1] \in DOMAIN CFG /\ o[2] \in DOMAIN CFG[o[1]]
    THEN "started" ELSE "KeyError"

ConfigCalls ==
    { [fn |-> "load_config", pc |-> "called", file |-> f, out |-> <<>>] :
      f \in ConfigFiles \cup {Missing, Unreadable} }

----------------------------------------------------------------------------
(* anki-automator.py: invoke_anki, setup_anki, run_batch *)

\* Python's None, and the values a result field holds: a list of note type names,
\* with and without the note type of the script, and the id of a note
PyNone == <<"None">>

ResultValues == { <<"AI_Immersion_Card">>, <<"Basic">>, <<"1">> }

\* what requests.post(...).json() gives: the request or the decoding fails; JSON
\* that is no object; an object with one, two or three fields
Responses ==
    { [kind |-> "failure"], [kind |-> "list"] } \cup
    { [kind |-> "object", body |-> b] :
      b \in { [result |-> r, error |-> PyNone] : r \in ResultValues \cup {PyNone} }
         \cup { [result |-> PyNone, error |-> <<"e">>],
                [result |-> <<"1">>],
                [error |-> PyNone, id |-> <<"1">>],
                [result |-> <<"1">>, error |-> PyNone, id |-> <<"1">>] } }

\* invoke_anki on the response the post returns: the value returned, or raised
invoke_anki(response) ==
    IF response.kind = "failure" THEN [raised |-> FALSE, value |-> PyNone]
    ELSE IF response.kind = "list"
    THEN \* len(), "in" or the subscript raises TypeError, caught
         [raised |-> FALSE, value |-> PyNone]
    ELSE IF Cardinality(DOMAIN response.body) # 2
    THEN [raised |-> FALSE, value |-> PyNone]
    ELSE IF "error" \notin DOMAIN response.body
    THEN [raised |-> FALSE, value |-> PyNone]
    ELSE IF response.body["error"] # PyNone
    THEN [raised |-> FALSE, value |-> PyNone]
    ELSE IF "result" \notin DOMAIN response.body
    THEN \* KeyError, caught
         [raised |-> FALSE, value |-> PyNone]
    ELSE [raised |-> FALSE, value |-> response.body["result"]]

\* setup_anki with the responses to createDeck and modelNames: "model_name not in
\* existing_models" raises TypeError when modelNames gave None
setup_anki(createDeck, modelNames) ==
    LET existing_models == invoke_anki(modelNames).value
    IN  IF existing_models = PyNone THEN "TypeError" ELSE "done"

WordLists == SeqsUpTo({ <<"a">>, <<"a", " ", "(", "h", ")">> }, 2)

InvokeCalls ==
    { [fn |-> "invoke_anki", pc |-> "called", response |-> r, out |-> <<>>] :
      r \in Responses }

BatchCalls ==
    { [fn |-> "run_batch", pc |-> "called", word_list |-> l, i |-> 1,
       attempted |-> <<>>, notes |-> <<>>] : l \in WordLists }

CallInit ==
    /\ InitFrom(<<>>, TRUE)
    /\ budget = 0
    /\ call \in FetchCalls \cup ParseCalls \cup ConfigCalls \cup InvokeCalls \cup BatchCalls

CallFetch ==
    /\ call.fn = "fetch_pending_words"
    /\ call.pc = "called"
    /\ call' = [call EXCEPT !.pc = "returned",
                            !.out = fetch_pending_words(call.records, call.limit,
                                                        call.readOk)]
    /\ UNCHANGED appVars

\* the word and the hint start_prefetching computes for one queue entry
CallPrefetchParse ==
    /\ call.fn = "start_prefetching"
    /\ call.pc = "called"
    /\ call' = [call EXCEPT !.pc = "returned",
                            !.out = [text |-> PrefetchWord(call.raw),
                                     hint |-> PrefetchHint(call.raw)]]
    /\ UNCHANGED appVars

CallProcessWord ==
    /\ call.fn = "process_word"
    /\ call.pc = "called"
    /\ call' = [call EXCEPT !.pc = "returned",
                            !.out = [text |-> process_word(call.raw).input_text,
                                     hint |-> process_word(call.raw).hint]]
    /\ UNCHANGED appVars

\* CFG = load_config() and the shortcut variables after it
CallLoadConfig ==
    /\ call.fn = "load_config"
    /\ call.pc = "called"
    /\ LET CFG == load_config(call.file)
       IN  call' = [call EXCEPT !.pc = "returned",
                                !.out = [CFG |-> CFG, startup |-> Startup(CFG)]]
    /\ UNCHANGED appVars

CallInvokeAnki ==
    /\ call.fn = "invoke_anki"
    /\ call.pc = "called"
    /\ call' = [call EXCEPT !.pc = "returned", !.out = invoke_anki(call.response)]
    /\ UNCHANGED appVars

\* run_batch calls setup_anki, outside of any try
BatchSetup ==
    /\ call.fn = "run_batch"
    /\ call.pc = "called"
    /\ \E createDeck \in Responses, modelNames \in Responses :
          call' = [call EXCEPT !.pc = IF setup_anki(createDeck, modelNames) = "done"
                                      THEN "loop" ELSE "raised"]
    /\ UNCHANGED appVars

\* one turn of the loop of run_batch: process_word returns or raises, and then
\* invoke_anki("addNote") gets its response; every exception is caught in the loop
BatchEntry ==
    /\ call.fn = "run_batch"
    /\ call.pc = "loop"
    /\ call.i <= Len(call.word_list)
    /\ \E textOk \in BOOLEAN, addNote \in Responses :
          LET entry == call.word_list[call.i]
              target_word == process_word(entry).input_text
              result == invoke_anki(addNote).value
          IN  /\ ~textOk => addNote = [kind |-> "failure"]
              /\ call' = [call EXCEPT
                              !.i = @ + 1,
                              !.attempted = Append(@, entry),
                              !.notes = IF textOk /\ result # PyNone
                                        THEN Append(@, target_word) ELSE @]
    /\ UNCHANGED appVars

BatchReturn ==
    /\ call.fn = "run_batch"
    /\ call.pc = "loop"
    /\ call.i > Len(call.word_list)
    /\ call' = [call EXCEPT !.pc = "returned"]
    /\ UNCHANGED appVars

CallNext ==
    \/ CallFetch
    \/ CallLoadConfig
    \/ CallInvokeAnki
    \/ BatchSetup
    \/ BatchEntry
    \/ BatchReturn
    \/ CallPrefetchParse
    \/ CallProcessWord

CallSpec == CallInit /\ [][CallNext]_vars

FetchReturned == call.fn = "fetch_pending_words" /\ call.pc = "returned"

Min(a, b) == IF a < b THEN a ELSE b

\* the positions (from 1) of the records that are pending, by the test on the status
PendingBy(records, IsDone(_)) ==
    {i \in 1..Len(records) : ~IsDone(records[i].Status) /\ Strip(records[i].Word) # <<>>}

DoneIgnoringCase(status) == Lower(status) = <<"d", "o", "n", "e">>

DoneTrimmedIgnoringCase(status) == Lower(Strip(status)) = <<"d", "o", "n", "e">>

\* out is the first limit members of P in row order, each with its trimmed word and
\* its sheet row (position from 0, plus 2)
FirstPending(out, records, P, limit) ==
    /\ Len(out) = Min(limit, Cardinality(P))
    /\ \A k \in 1..Len(out) :
           LET i == out[k].row_idx - 1
           IN  /\ i \in P
               /\ Cardinality({j \in P : j <= i}) = k
               /\ out[k].text = Strip(records[i].Word)

\* C17 as stated: fetch_pending_words returns, in row order, the first limit rows
\* whose Status is not "done" whatever the case and whose Word is not blank, each
\* with its sheet row index, position + 2; and the empty list when the read fails.
C17_FetchPending ==
    FetchReturned =>
        IF call.readOk
        THEN FirstPending(call.out, call.records,
                          PendingBy(call.records, DoneIgnoringCase), call.limit)
        ELSE call.out = <<>>

\* C17 amended: the same, where a row is finished when its Status, trimmed, is
\* "done" whatever the case.
C17_FetchPendingTrimmed ==
    FetchReturned =>
        IF call.readOk
        THEN FirstPending(call.out, call.records,
                          PendingBy(call.records, DoneTrimmedIgnoringCase), call.limit)
        ELSE call.out = <<>>

\* a finished row and then two pending ones, cut at a limit of 1: the call returns
\* the second record alone, as sheet row 3
C17_Witness ==
    /\ FetchReturned
    /\ call.readOk
    /\ call.limit = 1
    /\ Len(call.records) = 3
    /\ call.records[1].Status = <<"D", "O", "N", "E">>
    /\ PendingBy(call.records, DoneTrimmedIgnoringCase) = {2, 3}
    /\ Len(call.out) = 1
    /\ call.out[1].row_idx = 3


ParseReturned == call.fn \in {"start_prefetching", "process_word"} /\ call.pc = "returned"

\* what the parse of an entry has to yield: of "X (Y)" the text X and the hint Y, of
\* an entry without parentheses the hint "None"
ParsedRight ==
    /\ \A X \in RawTexts, Y \in RawHints :
           call.raw = WithHint(X, Y) => call.out = [text |-> X, hint |-> Y]
    /\ ~Contains(call.raw, "(") => call.out.hint = <<"N", "o", "n", "e">>

\* C18: both parsers yield text X and hint Y for every entry "X (Y)", X and Y with
\* parentheses of their own included, and the hint "None" for every entry without a
\* parenthetical.
C18_ParsersYieldTextAndHint == ParseReturned => ParsedRight

HasNoNestedParentheses ==
    \A X \in RawTexts, Y \in RawHints :
        call.raw = WithHint(X, Y) => ~Contains(X, "(") /\ ~Contains(Y, "(")

\* C18 for the entries whose text and hint hold no parentheses: both parsers yield
\* X and Y, or the hint "None".
C18_PlainEntriesParsed == (ParseReturned /\ HasNoNestedParentheses) => ParsedRight

\* C18 for the split-based parser alone
C18_SplitParserYieldsTextAndHint ==
    (ParseReturned /\ call.fn = "start_prefetching") => ParsedRight

\* C18 for the regular-expression parser alone
C18_RegexParserYieldsTextAndHint ==
    (ParseReturned /\ call.fn = "process_word") => ParsedRight


----------------------------------------------------------------------------
(* C19: the merge of a text result *)

\* the data _do_regen_text merges for the text result r
RegenMergeData(r) == Update(r, [k \in {"force_text_update"} |-> TRUE])

\* C19: merging a text result is idempotent. In every state after _do_regen_text
\* merged a result into the entry of a word, merging the same result once more
\* leaves the entry as it is, and the next reconciliation of the form shows the
\* same fields with it as without it.
C19_TextMergeIdempotent ==
    \A w \in DOMAIN regen_text_result :
        LET again == Update(cache[w], RegenMergeData(regen_text_result[w]))
        IN  /\ again = cache[w]
            /\ w = current_word =>
                   TextUpdate(entries, again).ent = TextUpdate(entries, cache[w]).ent

\* C19 right after the merge: in the state _do_regen_text leaves, merging the same
\* result once more changes nothing of the entry.
C19_IdempotentRightAfterMerge ==
    [][\A t \in rtext :
           (t \notin rtext' /\ cache' # cache) =>
               Update(cache'[t.word], RegenMergeData(regen_text_result'[t.word]))
                   = cache'[t.word]]_vars


----------------------------------------------------------------------------
(* C20: temporary images and the image_path of the entries *)

\* no image operation is under way and the session is open: no regeneration thread,
\* no finish_regen waiting in the event loop, no work item in its image call
ImageOpsQuiet ==
    /\ ~destroyed
    /\ ~is_closing
    /\ rimg = {}
    /\ \A k \in 1..Len(afterq) : afterq[k].fn # "finish_regen"
    /\ \A i \in 1..Len(tasks) : tasks[i].pc # "image"

\* every image file of the temp folder is the image_path of some entry
NoOrphanedImage ==
    \A f \in TempImages(temp_files) :
        \E w \in DOMAIN cache : HasPath(cache[w]) /\ cache[w]["image_path"] = f

\* every image_path names a file of the temp folder, or one an approval has moved
\* to the final folder
NoDanglingPath ==
    \A w \in DOMAIN cache :
        HasPath(cache[w]) =>
            cache[w]["image_path"] \in temp_files \cup final_files

\* C20: after any sequence of prefetch and regenerate-image operations every image
\* file in the temp folder is the image_path of some cache entry, and every
\* image_path names a file that exists unless an approval relocated it.
C20_NoOrphanNoDangling == ImageOpsQuiet => NoOrphanedImage /\ NoDanglingPath

\* C20, the half on the files of the temp folder. It holds while all file names of
\* a word carry the same second (MaxTime = 0); with two seconds a regeneration that
\* overlaps the image call of the work item leaves a file no entry names.
C20_NoOrphan == ImageOpsQuiet => NoOrphanedImage


----------------------------------------------------------------------------
(* C21: partial configuration files *)

ConfigReturned == call.fn = "load_config" /\ call.pc = "returned"

\* every value of the user's file is in the configuration returned
UserValuesKept ==
    call.file \in ConfigFiles =>
        \A sec \in DOMAIN call.file.json : \A k \in DOMAIN call.file.json[sec] :
            /\ sec \in DOMAIN call.out.CFG
            /\ k \in DOMAIN call.out.CFG[sec]
            /\ call.out.CFG[sec][k] = call.file.json[sec][k]

\* C21: for every subset of sections and keys in the user's file, and for a missing
\* or unreadable file, load_config keeps the user's values and returns every option
\* the program reads at startup, so the startup reads succeed.
C21_PartialConfigValid ==
    ConfigReturned =>
        /\ UserValuesKept
        /\ \A o \in StartupOptions :
               o[1] \in DOMAIN call.out.CFG /\ o[2] \in DOMAIN call.out.CFG[o[1]]
        /\ call.out.startup = "started"

\* C21 for the options DEFAULT_CONFIG holds: the user's values are kept and each of
\* those options is present, with its default where the file does not give it.
C21_DefaultedOptionsPresent ==
    ConfigReturned =>
        /\ UserValuesKept
        /\ \A sec \in DOMAIN DEFAULT_CONFIG : \A k \in DOMAIN DEFAULT_CONFIG[sec] :
               /\ sec \in DOMAIN call.out.CFG
               /\ k \in DOMAIN call.out.CFG[sec]
               /\ (call.file \in ConfigFiles /\ sec \in DOMAIN call.file.json
                       /\ k \in DOMAIN call.file.json[sec])
                  \/ call.out.CFG[sec][k] = DEFAULT_CONFIG[sec][k]

\* the startup reads succeed exactly when the file itself gives all four generation
\* options that have no default
C21_StartsOnlyWithFullGeneration ==
    ConfigReturned =>
        (call.out.startup = "started"
            <=> /\ call.file \in ConfigFiles
                /\ "generation" \in DOMAIN call.file.json
                /\ {"target_language", "image_quality", "cefr_lvl", "suggested_length"}
                       \subseteq DOMAIN call.file.json["generation"])


----------------------------------------------------------------------------
(* C22: invoke_anki and run_batch *)

InvokeReturned == call.fn = "invoke_anki" /\ call.pc = "returned"

\* the response is an object of two fields, one of them "error", and the error is null
WellFormed(response) ==
    /\ response.kind = "object"
    /\ Cardinality(DOMAIN response.body) = 2
    /\ "error" \in DOMAIN response.body
    /\ response.body["error"] = PyNone

\* invoke_anki returns the result of a well-formed response and None for any other
\* response, and never raises
InvokeNeverRaises ==
    InvokeReturned =>
        /\ ~call.out.raised
        /\ call.out.value =
              IF WellFormed(call.response) /\ "result" \in DOMAIN call.response.body
              THEN call.response.body["result"] ELSE PyNone

BatchEnded == call.fn = "run_batch" /\ call.pc \in {"returned", "raised"}

\* C22: invoke_anki returns the result exactly for a response of two fields whose
\* error is null, and None otherwise, and never raises; so run_batch attempts every
\* entry of the word list, in order, whatever fails.
C22_EveryEntryAttempted ==
    /\ InvokeNeverRaises
    /\ BatchEnded => call.attempted = call.word_list

\* C22 without the consequence: invoke_anki alone
C22_InvokeNeverRaises == InvokeNeverRaises

\* C22 for the loop of run_batch: once setup_anki has returned, every entry is
\* attempted in order, whatever failed before it
C22_LoopAttemptsEveryEntry ==
    (call.fn = "run_batch" /\ call.pc \in {"loop", "returned"}) =>
        /\ call.attempted = SubSeq(call.word_list, 1, call.i - 1)
        /\ call.pc = "returned" => call.attempted = call.word_list


----------------------------------------------------------------------------
(* C23: the image of a card under approval *)

\* Approve has passed its checks and the approval thread has not yet run the move
ApprovalBeforeRelocation == approver.pc \in {"start", "audio"}

\* C23: from the moment Approve passes its precondition check until the approval
\* thread relocates it, the file named by the focused card's image_path is in the
\* temp folder.
C23_ImageStaysUntilRelocated ==
    ApprovalBeforeRelocation =>
        /\ current_word \in DOMAIN cache
        /\ HasPath(cache[current_word])
        /\ cache[current_word]["image_path"] \in temp_files

\* C23 at the moment of the check alone: when Approve passes, the file exists
C23_ImageExistsAtApprove ==
    [][(approver.pc = "idle" /\ approver'.pc = "start") =>
           cache[current_word]["image_path"] \in temp_files]_vars

\* C23 while no image regeneration was started, Exit was not clicked and the word
\* was not approved before: the file stays until the thread relocates it
C23_UnlessRegenExitOrAlias ==
    (ApprovalBeforeRelocation /\ ~destroyed /\ rimg = {}
        /\ (\A k \in 1..Len(afterq) : afterq[k].fn # "finish_regen")
        /\ ~HasError(cache[current_word])
        /\ cache[current_word]["image_path"] \notin final_files)
    => cache[current_word]["image_path"] \in temp_files


----------------------------------------------------------------------------
(* C24: an accepted approval completes *)

\* the approval thread has ended on an exception while the session is open
ApproverLost == approver.pc \in {"dead", "append_failed"} /\ ~destroyed

\* C24: every Approve that passes the check completes. An approval thread that has
\* ended cannot hand back any more, so in an open session the approval thread never
\* ends on an exception: it reaches root.after(0, self._finish_approval).
C24_ThreadNeverLost == ~ApproverLost

\* once the approval thread is lost, the Approve button stays disabled and the
\* cursor stays where it is, whatever happens next
C24_LostIsForever ==
    [][ApproverLost =>
           /\ approver' = approver
           /\ btn_approve' \in {"disabled", "destroyed"}
           /\ viewing_index' = viewing_index]_vars


----------------------------------------------------------------------------
(* C25: the row as a snapshot of the form *)

\* C25: the Definition, Sentence, Translation and Scenario of a row written to the
\* sink are the values the four fields held together at one instant between the
\* approval thread's first and last read of the form.
C25_RowIsOneSnapshot ==
    [][RowWritten =>
           \E e \in form_seen :
               \A f \in TextFields : RowField(csv'[Len(csv')], f) = StripText(e[f])]_vars

\* the row is a snapshot of the form whenever the form did not change between the
\* approval thread's first and last read of it
C25_SnapshotUnlessFormChanged ==
    [][(RowWritten /\ Cardinality(form_seen) = 1) =>
           \E e \in form_seen :
               \A f \in TextFields : RowField(csv'[Len(csv')], f) = StripText(e[f])]_vars


----------------------------------------------------------------------------
(* C26: the cache key of the focused word *)

\* C26: for every queue item the key load_current_view computes is the key
\* start_prefetching created the entry under, so the cache holds an entry for every
\* queue item and for the focused word of an open session, and the lookups of
\* Approve, Regen Text and Regen Image find their key.
C26_FocusedWordInCache ==
    /\ \A i \in 1..Len(word_queue) :
           /\ ViewWord(word_queue[i]) = PrefetchWord(word_queue[i])
           /\ ViewWord(word_queue[i]) \in DOMAIN cache
    /\ ~destroyed => current_word \in DOMAIN cache
    /\ \A i \in 1..Len(tasks) : tasks[i].word \in DOMAIN cache
    /\ \A t \in rtext \cup rimg : t.word \in DOMAIN cache
    /\ approver.pc \in {"start", "audio", "mark"} => current_word \in DOMAIN cache

\* the focused item is "a (h)", its key is "a", and Approve has looked the key up
C26_Witness ==
    /\ viewing_index < Len(word_queue)
    /\ word_queue[viewing_index + 1] = <<"a", " ", "(", "h", ")">>
    /\ current_word = <<"a">>
    /\ approver.pc = "start"


----------------------------------------------------------------------------
(* C27, C28: one regeneration of a kind at a time *)

\* the finish_regen callbacks waiting in the event loop
PendingFinishRegen == {k \in 1..Len(afterq) : afterq[k].fn = "finish_regen"}

\* an image regeneration has started and finish_regen has not yet run
ImageRegenInFlight == rimg # {} \/ PendingFinishRegen # {}

\* C27: at most one image regeneration is in flight, and from its start until
\* finish_regen runs the Regen Image button is disabled.
C27_OneImageRegeneration ==
    /\ Cardinality(rimg) + Cardinality(PendingFinishRegen) <= 1
    /\ (ImageRegenInFlight /\ ~destroyed) => btn_regen_img = "disabled"

\* during an image regeneration a text regeneration, started before it, has
\* finished and has enabled its own button; the Regen Image button is still disabled
C27_Witness ==
    /\ ~destroyed
    /\ rimg # {}
    /\ rtext = {}
    /\ nuser = 2
    /\ btn_regen_text = "normal"
    /\ btn_regen_img = "disabled"

\* the text callbacks waiting in the event loop
PendingFinishText ==
    {k \in 1..Len(afterq) : afterq[k].fn \in {"_finish_text_regen", "enable_regen_text"}}

\* a text regeneration has started and its callback has not yet run
TextRegenInFlight == rtext # {} \/ PendingFinishText # {}

\* C28: at most one text regeneration is in flight, and from its start until it has
\* finished the Regen Text button is disabled, whatever else happens in between.
C28_OneTextRegeneration ==
    /\ Cardinality(rtext) + Cardinality(PendingFinishText) <= 1
    /\ (TextRegenInFlight /\ ~destroyed) => btn_regen_text = "disabled"

\* C28 while no image regeneration has finished since the text regeneration began:
\* the Regen Text button is enabled by finish_regen and by the text callbacks only
C28_OnlyFinishRegenEnables ==
    [][(TextRegenInFlight /\ btn_regen_text = "disabled" /\ btn_regen_text' = "normal")
           => (RunCallback /\ Head(afterq).fn
                   \in {"finish_regen", "_finish_text_regen", "enable_regen_text"})]_vars


----------------------------------------------------------------------------
(* C29: text before image *)

HasText(entry) == "definition" \in DOMAIN entry

\* C29: an entry has image_path only if it has a definition, and no work item calls
\* the image client with an empty scenario; so a card that satisfies the checks of
\* Approve has generated text.
C29_ImageOnlyAfterText ==
    /\ \A w \in DOMAIN cache : HasPath(cache[w]) => HasText(cache[w])
    /\ \A i \in 1..Len(tasks) : tasks[i].pc = "image" => tasks[i].scenario # ""
    /\ (~destroyed /\ Approvable) => HasText(cache[current_word])

\* a work item whose entry has text when it reaches the image call passes the
\* scenario of that text to the image client
C29_ScenarioOfTheText ==
    [][\A i \in 1..Len(tasks) :
           (tasks[i].pc # "image" /\ tasks'[i].pc = "image"
               /\ HasText(cache'[tasks[i].word]))
           => /\ tasks'[i].scenario = cache'[tasks[i].word]["scenario"]
              /\ tasks'[i].scenario # ""]_vars

====
